---- MODULE Spec2Model ----
(***************************************************************************)
(* Gonfiguration: an in-memory key=value configuration store loaded from   *)
(* a line-oriented text file (src/gonfiguration.go, package gonfiguration, *)
(* lines 1-234).                                                           *)
(*                                                                         *)
(* A Go string is modelled as a sequence of one-character strings, so that *)
(* strings.ToLower, strings.Split, strings.Join, strings.HasPrefix,        *)
(* strings.Contains and strconv.Atoi are computed character by character.  *)
(* A file is the sequence of lines bufio.Scanner hands to the loop.        *)
(***************************************************************************)
EXTENDS Integers, Sequences, FiniteSets, TLC

VARIABLES
    fs,                  \* the filesystem: path -> file (sequence of lines) or NoFile
    born,                \* TRUE once New has returned the store
    GonfigurationValues, \* field: [nil |-> BOOLEAN, kv |-> map from key to value]
    ValidateConfigLine,  \* field: NilFunc or the name of a custom validator
    Path,                \* field: the stored path
    call,                \* the last call made on the store: its name and arguments
    ret,                 \* what that call returned: [val |-> ..., err |-> ...]
    made,                \* what New returned and left behind: [path, err, len]
    disposed             \* TRUE once Dispose has been called

vars == <<fs, born, GonfigurationValues, ValidateConfigLine, Path, call, ret, made,
          disposed>>

-----------------------------------------------------------------------------
(* Error sentinels, src/gonfiguration.go:11-16; NoErr is Go's nil error.   *)

NoErr == "nil"
errorGonfigurationNil == "gonfiguration object is not initialized"
errorCantOpenFile == "can't open configuration file"
errorDuplicatedEntry == "duplicated key"
errorKeyNotFound == "key doesn't exist"

-----------------------------------------------------------------------------
(* Strings.                                                                *)

Upper == <<"A", "B", "C", "D", "E", "F", "G", "H", "I", "J", "K", "L", "M",
           "N", "O", "P", "Q", "R", "S", "T", "U", "V", "W", "X", "Y", "Z">>
Lower == <<"a", "b", "c", "d", "e", "f", "g", "h", "i", "j", "k", "l", "m",
           "n", "o", "p", "q", "r", "s", "t", "u", "v", "w", "x", "y", "z">>

\* unicode.ToLower on one ASCII character
ToLowerChar(c) ==
    IF \E i \in 1..Len(Upper) : Upper[i] = c
    THEN Lower[CHOOSE i \in 1..Len(Upper) : Upper[i] = c]
    ELSE c

\* strings.ToLower
ToLower(s) == [i \in 1..Len(s) |-> ToLowerChar(s[i])]

\* strings.HasPrefix
HasPrefix(s, p) == Len(s) >= Len(p) /\ SubSeq(s, 1, Len(p)) = p

\* strings.Index: the first position at which sep occurs in s, 0 when none
\* (Go's -1, shifted by one because sequences start at 1)
Index(s, sep) ==
    LET hits == {i \in 1..(Len(s) - Len(sep) + 1) : SubSeq(s, i, i + Len(sep) - 1) = sep}
    IN  IF hits = {} THEN 0 ELSE CHOOSE i \in hits : \A j \in hits : i <= j

\* strings.Contains
StrContains(s, sub) == Index(s, sub) # 0

\* strings.Split(s, sep): sep = "" explodes s into its characters (none for
\* the empty string); otherwise s is cut at every occurrence of sep, giving
\* one more piece than there are occurrences (so "" gives one empty piece).
RECURSIVE Split(_, _)
Split(s, sep) ==
    IF sep = <<>>
    THEN [i \in 1..Len(s) |-> <<s[i]>>]
    ELSE LET m == Index(s, sep)
         IN  IF m = 0
             THEN <<s>>
             ELSE <<SubSeq(s, 1, m - 1)>> \o Split(SubSeq(s, m + Len(sep), Len(s)), sep)

\* strings.Join
RECURSIVE Join(_, _)
Join(elems, sep) ==
    IF elems = <<>> THEN <<>>
    ELSE IF Len(elems) = 1 THEN elems[1]
    ELSE elems[1] \o sep \o Join(Tail(elems), sep)

-----------------------------------------------------------------------------
(* strconv.Atoi, as called at src/gonfiguration.go:118 and :131.           *)
(* Go's int is 32 or 64 bits wide, by build. The model takes the 32-bit    *)
(* build; the 64-bit build differs only in the two limits. Digit strings   *)
(* are compared as strings, so no number beyond the int range is computed. *)

MaxInt == 2147483647
MinInt == -MaxInt - 1
\* 1<<31, ParseInt's cutoff, and 1<<32 - 1, ParseUint's maxVal, in digits
CutoffDigits == <<"2", "1", "4", "7", "4", "8", "3", "6", "4", "8">>
MaxValDigits == <<"4", "2", "9", "4", "9", "6", "7", "2", "9", "5">>

DigitChars == <<"0", "1", "2", "3", "4", "5", "6", "7", "8", "9">>
IsDigit(c) == \E i \in 1..10 : DigitChars[i] = c
DigitVal(c) == (CHOOSE i \in 1..10 : DigitChars[i] = c) - 1

RECURSIVE StripZeros(_)
StripZeros(d) == IF d # <<>> /\ d[1] = "0" THEN StripZeros(Tail(d)) ELSE d

\* a > b, for two digit strings read as numbers
DigitsGT(a, b) ==
    LET x == StripZeros(a)
        y == StripZeros(b)
    IN  \/ Len(x) > Len(y)
        \/ /\ Len(x) = Len(y)
           /\ \E i \in 1..Len(x) : /\ DigitVal(x[i]) > DigitVal(y[i])
                                   /\ \A j \in 1..(i - 1) : x[j] = y[j]

\* the number a digit string below 1<<31 denotes
RECURSIVE NumVal(_)
NumVal(d) ==
    IF d = <<>> THEN 0
    ELSE NumVal(SubSeq(d, 1, Len(d) - 1)) * 10 + DigitVal(d[Len(d)])

\* strconv.ParseUint(s, 10, 0): its loop from character i on. A character
\* that is no digit ends it with a syntax error; a digit that takes the
\* number read so far above maxVal ends it at once with a range error.
RECURSIVE ParseUintFrom(_, _)
ParseUintFrom(s, i) ==
    IF i > Len(s) THEN "nil"
    ELSE IF ~IsDigit(s[i]) THEN "syntax"
    ELSE IF DigitsGT(SubSeq(s, 1, i), MaxValDigits) THEN "range"
    ELSE ParseUintFrom(s, i + 1)

ParseUint(s) == IF s = <<>> THEN "syntax" ELSE ParseUintFrom(s, 1)

\* strconv.ParseInt(s, 10, 0): the sign, ParseUint, then the int range
ParseInt(s) ==
    IF s = <<>> THEN [val |-> 0, err |-> "syntax"]
    ELSE LET neg == s[1] = "-"
             d   == IF s[1] \in {"+", "-"} THEN Tail(s) ELSE s
             e   == ParseUint(d)
         IN  IF e = "syntax" THEN [val |-> 0, err |-> "syntax"]
             ELSE IF ~neg /\ (e = "range" \/ ~DigitsGT(CutoffDigits, d))
                  THEN [val |-> MaxInt, err |-> "range"]
             ELSE IF neg /\ (e = "range" \/ DigitsGT(d, CutoffDigits))
                  THEN [val |-> MinInt, err |-> "range"]
             ELSE IF neg
                  THEN [val |-> IF DigitsGT(CutoffDigits, d) THEN -NumVal(d) ELSE MinInt,
                        err |-> "nil"]
             ELSE [val |-> NumVal(d), err |-> "nil"]

\* strconv.Atoi: the fast path for strings shorter than 10 characters (all
\* of which fit the int), ParseInt for the rest
Atoi(s) ==
    IF 0 < Len(s) /\ Len(s) < 10
    THEN LET d == IF s[1] \in {"+", "-"} THEN Tail(s) ELSE s
         IN  IF d = <<>> \/ \E i \in 1..Len(d) : ~IsDigit(d[i])
             THEN [val |-> 0, err |-> "syntax"]
             ELSE [val |-> IF s[1] = "-" THEN -NumVal(d) ELSE NumVal(d), err |-> "nil"]
    ELSE ParseInt(s)

-----------------------------------------------------------------------------
(* The store, src/gonfiguration.go:18-23. A method is an operator from the *)
(* struct g = [GonfigurationValues, ValidateConfigLine, Path] to the       *)
(* struct it leaves, the value and the error it returns: [g, val, err].    *)

NilFunc == "nil"
NilMap == [nil |-> TRUE, kv |-> [k \in {} |-> <<>>]]
\* make(map[string]string)
MakeMap == [nil |-> FALSE, kv |-> [k \in {} |-> <<>>]]
NilSlice == [nil |-> TRUE, elems |-> <<>>]
Slice(elems) == [nil |-> FALSE, elems |-> elems]
NoVal == "none"
NoFile == [exists |-> FALSE, lines |-> <<>>]
File(lines) == [exists |-> TRUE, lines |-> lines]

\* a custom validator, a func(line string) bool, by name
ApplyValidator(f, line) == f = "acceptAll"

\* m[k] = v
MapPut(m, k, v) == [x \in DOMAIN m \cup {k} |-> IF x = k THEN v ELSE m[x]]
\* delete(m, k)
MapDelete(m, k) == [x \in DOMAIN m \ {k} |-> m[x]]

IsNil(g) == g.GonfigurationValues.nil

isGonfigurationLine(g, line) ==
    IF g.ValidateConfigLine # NilFunc
    THEN ApplyValidator(g.ValidateConfigLine, line)
    ELSE ~HasPrefix(line, <<"#">>) /\ line # <<>> /\ StrContains(line, <<"=">>)

Contains(g, key) ==
    IF IsNil(g)
    THEN [g |-> g, val |-> FALSE, err |-> errorGonfigurationNil]
    ELSE [g |-> g, val |-> ToLower(key) \in DOMAIN g.GonfigurationValues.kv, err |-> NoErr]

\* (mutant) a duplicate is reported, and written all the same
AddNew_Overwrites(g, key, value) ==
    IF IsNil(g)
    THEN [g |-> g, val |-> NoVal, err |-> errorGonfigurationNil]
    ELSE [g |-> [g EXCEPT !.GonfigurationValues.kv = MapPut(@, ToLower(key), value)],
          val |-> NoVal,
          err |-> IF Contains(g, key).val THEN errorDuplicatedEntry ELSE NoErr]

AddNew(g, key, value) ==
    IF IsNil(g)
    THEN [g |-> g, val |-> NoVal, err |-> errorGonfigurationNil]
    ELSE IF Contains(g, key).val
    THEN [g |-> g, val |-> NoVal, err |-> errorDuplicatedEntry]
    ELSE [g |-> [g EXCEPT !.GonfigurationValues.kv = MapPut(@, ToLower(key), value)],
          val |-> NoVal, err |-> NoErr]

\* (mutant) the key is stored as given
Update_KeyAsGiven(g, key, value) ==
    IF IsNil(g)
    THEN [g |-> g, val |-> NoVal, err |-> errorGonfigurationNil]
    ELSE [g |-> [g EXCEPT !.GonfigurationValues.kv = MapPut(@, key, value)],
          val |-> NoVal, err |-> NoErr]

Update(g, key, value) ==
    IF IsNil(g)
    THEN [g |-> g, val |-> NoVal, err |-> errorGonfigurationNil]
    ELSE [g |-> [g EXCEPT !.GonfigurationValues.kv = MapPut(@, ToLower(key), value)],
          val |-> NoVal, err |-> NoErr]

\* (mutant) the key is deleted as given
Delete_KeyAsGiven(g, key) ==
    IF IsNil(g)
    THEN [g |-> g, val |-> NoVal, err |-> errorGonfigurationNil]
    ELSE IF ~Contains(g, key).val
    THEN [g |-> g, val |-> NoVal, err |-> errorKeyNotFound]
    ELSE [g |-> [g EXCEPT !.GonfigurationValues.kv = MapDelete(@, key)],
          val |-> NoVal, err |-> NoErr]

Delete(g, key) ==
    IF IsNil(g)
    THEN [g |-> g, val |-> NoVal, err |-> errorGonfigurationNil]
    ELSE IF ~Contains(g, key).val
    THEN [g |-> g, val |-> NoVal, err |-> errorKeyNotFound]
    ELSE [g |-> [g EXCEPT !.GonfigurationValues.kv = MapDelete(@, ToLower(key))],
          val |-> NoVal, err |-> NoErr]

\* for key := range m { delete(m, strings.ToLower(key)) }
Clear(g) ==
    IF IsNil(g)
    THEN [g |-> g, val |-> NoVal, err |-> errorGonfigurationNil]
    ELSE LET m == g.GonfigurationValues.kv
             gone == {ToLower(k) : k \in DOMAIN m}
         IN  [g |-> [g EXCEPT !.GonfigurationValues.kv = [x \in DOMAIN m \ gone |-> m[x]]],
              val |-> NoVal, err |-> NoErr]

Len_(g) ==
    IF IsNil(g)
    THEN [g |-> g, val |-> 0, err |-> errorGonfigurationNil]
    ELSE [g |-> g, val |-> Cardinality(DOMAIN g.GonfigurationValues.kv), err |-> NoErr]

\* Map returns &g.GonfigurationValues: the live map, here its contents
Map(g) ==
    IF IsNil(g)
    THEN [g |-> g, val |-> NilMap, err |-> errorGonfigurationNil]
    ELSE [g |-> g, val |-> g.GonfigurationValues, err |-> NoErr]

\* (mutant) the loop without the duplicate check: a later line overwrites
RECURSIVE ScanFrom_Overwrites(_, _, _)
ScanFrom_Overwrites(g, lines, i) ==
    IF i > Len(lines) THEN [g |-> g, val |-> NoVal, err |-> NoErr]
    ELSE IF isGonfigurationLine(g, lines[i])
    THEN LET key   == Split(lines[i], <<"=">>)[1]
             value == Tail(Split(lines[i], <<"=">>))
         IN  ScanFrom_Overwrites(Update(g, ToLower(key), Join(value, <<"=">>)).g, lines, i + 1)
    ELSE ScanFrom_Overwrites(g, lines, i + 1)

\* the loop of LoadFromPath from line i of the file on
RECURSIVE ScanFrom(_, _, _)
ScanFrom(g, lines, i) ==
    IF i > Len(lines) THEN [g |-> g, val |-> NoVal, err |-> NoErr]
    ELSE IF isGonfigurationLine(g, lines[i])
    THEN LET key   == Split(lines[i], <<"=">>)[1]
             value == Tail(Split(lines[i], <<"=">>))
         IN  IF Contains(g, key).val
             THEN [g |-> g, val |-> NoVal, err |-> errorDuplicatedEntry]
             ELSE ScanFrom(AddNew(g, ToLower(key), Join(value, <<"=">>)).g, lines, i + 1)
    ELSE ScanFrom(g, lines, i + 1)

\* (mutant) the path is stored only once the file is open
LoadFromPath_PathAfterOpen(g, fsys, path) ==
    IF ~fsys[path].exists
    THEN [g |-> g, val |-> NoVal, err |-> errorCantOpenFile]
    ELSE ScanFrom([g EXCEPT !.Path = path], fsys[path].lines, 1)

\* (mutant) a failed load leaves the map empty
LoadFromPath_EmptiesOnError(g, fsys, path) ==
    LET g1 == [g EXCEPT !.Path = path]
        r  == ScanFrom(g1, fsys[path].lines, 1)
    IN  IF ~fsys[path].exists
        THEN [g |-> g1, val |-> NoVal, err |-> errorCantOpenFile]
        ELSE IF r.err # NoErr THEN [r EXCEPT !.g = Clear(g1).g]
        ELSE r

\* (mutant) the map is emptied before the file is read
LoadFromPath_ClearsFirst(g, fsys, path) ==
    LET g1 == [Clear(g).g EXCEPT !.Path = path]
    IN  IF ~fsys[path].exists
        THEN [g |-> g1, val |-> NoVal, err |-> errorCantOpenFile]
        ELSE ScanFrom(g1, fsys[path].lines, 1)

LoadFromPath(g, fsys, path) ==
    LET g1 == [g EXCEPT !.Path = path]
    IN  IF ~fsys[path].exists
        THEN [g |-> g1, val |-> NoVal, err |-> errorCantOpenFile]
        ELSE ScanFrom(g1, fsys[path].lines, 1)

New(fsys, path, validateFunction) ==
    LoadFromPath([GonfigurationValues |-> MakeMap,
                  ValidateConfigLine |-> validateFunction,
                  Path |-> path], fsys, path)

\* (mutant) the map is not cleared before the load
Reload_NoClear(g, fsys) ==
    IF IsNil(g)
    THEN [g |-> g, val |-> NoVal, err |-> errorGonfigurationNil]
    ELSE LoadFromPath(g, fsys, g.Path)

Reload(g, fsys) ==
    IF IsNil(g)
    THEN [g |-> g, val |-> NoVal, err |-> errorGonfigurationNil]
    ELSE LoadFromPath(Clear(g).g, fsys, g.Path)

\* (mutant) the key is looked up as given
GetParamAsString_CaseSensitive(g, key, def) ==
    IF IsNil(g)
    THEN [g |-> g, val |-> <<>>, err |-> errorGonfigurationNil]
    ELSE IF key \notin DOMAIN g.GonfigurationValues.kv
    THEN [g |-> g, val |-> def, err |-> errorKeyNotFound]
    ELSE [g |-> g, val |-> g.GonfigurationValues.kv[key], err |-> NoErr]

GetParamAsString(g, key, def) ==
    IF IsNil(g)
    THEN [g |-> g, val |-> <<>>, err |-> errorGonfigurationNil]
    ELSE IF ToLower(key) \notin DOMAIN g.GonfigurationValues.kv
    THEN [g |-> g, val |-> def, err |-> errorKeyNotFound]
    ELSE [g |-> g, val |-> g.GonfigurationValues.kv[ToLower(key)], err |-> NoErr]

GetParamAsStringArray(g, key, def, sep) ==
    IF IsNil(g)
    THEN [g |-> g, val |-> NilSlice, err |-> errorGonfigurationNil]
    ELSE IF ToLower(key) \notin DOMAIN g.GonfigurationValues.kv
    THEN [g |-> g, val |-> Slice(Split(def, sep)), err |-> errorKeyNotFound]
    ELSE [g |-> g, val |-> Slice(Split(g.GonfigurationValues.kv[ToLower(key)], sep)),
          err |-> NoErr]

\* (mutant) a value that does not parse gives the default
GetParamAsInt_DefaultOnBadInt(g, key, def) ==
    IF IsNil(g)
    THEN [g |-> g, val |-> 0, err |-> errorGonfigurationNil]
    ELSE IF ToLower(key) \notin DOMAIN g.GonfigurationValues.kv
    THEN [g |-> g, val |-> def, err |-> errorKeyNotFound]
    ELSE LET r == Atoi(g.GonfigurationValues.kv[ToLower(key)])
         IN  [g |-> g, val |-> IF r.err = "nil" THEN r.val ELSE def, err |-> NoErr]

GetParamAsInt(g, key, def) ==
    IF IsNil(g)
    THEN [g |-> g, val |-> 0, err |-> errorGonfigurationNil]
    ELSE IF ToLower(key) \notin DOMAIN g.GonfigurationValues.kv
    THEN [g |-> g, val |-> def, err |-> errorKeyNotFound]
    ELSE [g |-> g, val |-> Atoi(g.GonfigurationValues.kv[ToLower(key)]).val, err |-> NoErr]

GetParamAsIntArray(g, key, def, sep) ==
    IF IsNil(g)
    THEN [g |-> g, val |-> NilSlice, err |-> errorGonfigurationNil]
    ELSE LET r   == GetParamAsStringArray(g, key, def, sep)
             tmp == r.val.elems
         IN  [g |-> g, val |-> Slice([x \in 1..Len(tmp) |-> Atoi(tmp[x]).val]),
              err |-> r.err]

\* (mutant) a missing key gives false, not the default
GetParamAsBool_IgnoresDefault(g, key, def) ==
    IF IsNil(g)
    THEN [g |-> g, val |-> FALSE, err |-> errorGonfigurationNil]
    ELSE IF ToLower(key) \notin DOMAIN g.GonfigurationValues.kv
    THEN [g |-> g, val |-> FALSE, err |-> errorKeyNotFound]
    ELSE LET val == g.GonfigurationValues.kv[ToLower(key)]
         IN  [g |-> g, val |-> (val = <<"t", "r", "u", "e">> \/ val = <<"1">>), err |-> NoErr]

GetParamAsBool(g, key, def) ==
    IF IsNil(g)
    THEN [g |-> g, val |-> FALSE, err |-> errorGonfigurationNil]
    ELSE IF ToLower(key) \notin DOMAIN g.GonfigurationValues.kv
    THEN [g |-> g, val |-> def, err |-> errorKeyNotFound]
    ELSE LET val == g.GonfigurationValues.kv[ToLower(key)]
         IN  [g |-> g, val |-> (val = <<"t", "r", "u", "e">> \/ val = <<"1">>), err |-> NoErr]

\* Dispose: g.Clear(), then the three fields are reset (g = nil changes
\* only the method's own copy of the pointer)
Dispose(g) ==
    [g |-> [Clear(g).g EXCEPT !.GonfigurationValues = NilMap,
                              !.ValidateConfigLine = NilFunc,
                              !.Path = ""],
     val |-> NoVal, err |-> NoErr]

-----------------------------------------------------------------------------
(* The inputs.                                                             *)

\* the lines a configuration file is made of
Lines ==
    { <<"a", "=", "1">>,           \* an entry
      <<"A", "=", "2">>,           \* the same key in another case
      <<"B", "=", "x", "=", "y">>, \* a value that holds a '='
      <<"b", "=">>,                \* an empty value
      <<"=", "v">>,                \* an empty key
      <<"#", "a", "=", "3">>,      \* a comment
      <<>>,                        \* a blank line
      <<"a", "b">> }               \* no '='

\* the longest file read
MaxLines == 3

RECURSIVE SeqsUpTo(_, _)
SeqsUpTo(S, n) ==
    IF n = 0 THEN {<<>>}
    ELSE LET shorter == SeqsUpTo(S, n - 1)
         IN  shorter \cup {Append(f, x) : f \in {h \in shorter : Len(h) = n - 1}, x \in S}

Files == SeqsUpTo(Lines, MaxLines)

\* the files the store is exercised on with every operation
SomeFiles ==
    { <<<<"a", "=", "1">>, <<>>, <<"B", "=", "x", "=", "y">>>>,
      <<<<"#", "a", "=", "3">>, <<"A", "=", "2">>, <<"a", "b">>>>,
      <<<<"b", "=">>, <<"a", "=", "1">>, <<"A", "=", "2">>>> }

AltFile == <<<<"B", "=", "t", "r", "u", "e">>>>

Paths == {"cfg.ini", "alt.ini", "missing.ini"}
Validators == {NilFunc, "acceptAll"}

Keys == {<<"a">>, <<"A">>, <<"b">>}
\* the keys looked up after a load
FileKeys == Keys \cup {<<"B">>, <<>>, <<"a", "b">>, <<"#", "a">>}

\* the values written by AddNew and Update
Values == {<<"1", "2">>, <<"x">>}

\* the values read back as integers
IntValues ==
    { <<"1", "2">>,
      <<"-", "5">>,
      <<"+", "7">>,
      <<>>,
      <<"x">>,
      <<" ", "7">>,
      <<"7", " ">>,
      <<"2", "1", "4", "7", "4", "8", "3", "6", "4", "7">>,
      <<"2", "1", "4", "7", "4", "8", "3", "6", "4", "8">>,
      <<"-", "2", "1", "4", "7", "4", "8", "3", "6", "4", "8">>,
      <<"-", "2", "1", "4", "7", "4", "8", "3", "6", "4", "9">>,
      <<"2", "1", "4", "7", "4", "8", "3", "6", "4", "8", "x">>,
      <<"4", "2", "9", "4", "9", "6", "7", "2", "9", "6", "x">> }

Defaults == {<<"d">>, <<"7", ",", "x">>, <<>>}
Seps == {<<",">>, <<>>}
IntDefaults == {-1, 9999}

-----------------------------------------------------------------------------
(* The state machine: one action per exported function.                    *)

G == [GonfigurationValues |-> GonfigurationValues,
      ValidateConfigLine |-> ValidateConfigLine,
      Path |-> Path]

\* the store after a call that returned r, and the record of the call
Returned(op, args, r) ==
    /\ GonfigurationValues' = r.g.GonfigurationValues
    /\ ValidateConfigLine' = r.g.ValidateConfigLine
    /\ Path' = r.g.Path
    /\ call' = [op |-> op, args |-> args]
    /\ ret' = [val |-> r.val, err |-> r.err]

OpNew(path, validateFunction) ==
    /\ ~born
    /\ born' = TRUE
    /\ LET r == New(fs, path, validateFunction)
       IN  /\ Returned("New", <<path, validateFunction>>, r)
           /\ made' = [path |-> path, err |-> r.err, len |-> Len_(r.g).val]
    /\ UNCHANGED <<fs, disposed>>

OpLoadFromPath(path) ==
    /\ born
    /\ Returned("LoadFromPath", <<path>>, LoadFromPath(G, fs, path))
    /\ UNCHANGED <<fs, born, made, disposed>>

OpReload ==
    /\ born
    /\ Returned("Reload", <<>>, Reload(G, fs))
    /\ UNCHANGED <<fs, born, made, disposed>>

OpGetParamAsString(key, def) ==
    /\ born
    /\ Returned("GetParamAsString", <<key, def>>, GetParamAsString(G, key, def))
    /\ UNCHANGED <<fs, born, made, disposed>>

OpGetParamAsStringArray(key, def, sep) ==
    /\ born
    /\ Returned("GetParamAsStringArray", <<key, def, sep>>,
                GetParamAsStringArray(G, key, def, sep))
    /\ UNCHANGED <<fs, born, made, disposed>>

OpGetParamAsInt(key, def) ==
    /\ born
    /\ Returned("GetParamAsInt", <<key, def>>, GetParamAsInt(G, key, def))
    /\ UNCHANGED <<fs, born, made, disposed>>

OpGetParamAsIntArray(key, def, sep) ==
    /\ born
    /\ Returned("GetParamAsIntArray", <<key, def, sep>>,
                GetParamAsIntArray(G, key, def, sep))
    /\ UNCHANGED <<fs, born, made, disposed>>

OpGetParamAsBool(key, def) ==
    /\ born
    /\ Returned("GetParamAsBool", <<key, def>>, GetParamAsBool(G, key, def))
    /\ UNCHANGED <<fs, born, made, disposed>>

OpAddNew(key, value) ==
    /\ born
    /\ Returned("AddNew", <<key, value>>, AddNew(G, key, value))
    /\ UNCHANGED <<fs, born, made, disposed>>

OpUpdate(key, value) ==
    /\ born
    /\ Returned("Update", <<key, value>>, Update(G, key, value))
    /\ UNCHANGED <<fs, born, made, disposed>>

OpDelete(key) ==
    /\ born
    /\ Returned("Delete", <<key>>, Delete(G, key))
    /\ UNCHANGED <<fs, born, made, disposed>>

OpContains(key) ==
    /\ born
    /\ Returned("Contains", <<key>>, Contains(G, key))
    /\ UNCHANGED <<fs, born, made, disposed>>

OpClear ==
    /\ born
    /\ Returned("Clear", <<>>, Clear(G))
    /\ UNCHANGED <<fs, born, made, disposed>>

OpLen ==
    /\ born
    /\ Returned("Len", <<>>, Len_(G))
    /\ UNCHANGED <<fs, born, made, disposed>>

OpMap ==
    /\ born
    /\ Returned("Map", <<>>, Map(G))
    /\ UNCHANGED <<fs, born, made, disposed>>

OpDispose ==
    /\ born
    /\ Returned("Dispose", <<>>, Dispose(G))
    /\ disposed' = TRUE
    /\ UNCHANGED <<fs, born, made>>

\* before New: no store yet
Unborn ==
    /\ born = FALSE
    /\ GonfigurationValues = NilMap
    /\ ValidateConfigLine = NilFunc
    /\ Path = ""
    /\ call = [op |-> "none", args |-> <<>>]
    /\ ret = [val |-> NoVal, err |-> NoErr]
    /\ made = [path |-> "", err |-> NoErr, len |-> 0]
    /\ disposed = FALSE

Init ==
    /\ \E f \in SomeFiles :
          fs = [p \in Paths |-> IF p = "cfg.ini" THEN File(f)
                                ELSE IF p = "alt.ini" THEN File(AltFile)
                                ELSE NoFile]
    /\ Unborn

Next ==
    \/ \E p \in Paths, v \in Validators : OpNew(p, v)
    \/ \E p \in Paths : OpLoadFromPath(p)
    \/ OpReload
    \/ \E k \in Keys : OpGetParamAsString(k, <<"d">>)
    \/ \E k \in Keys : OpGetParamAsStringArray(k, <<"d">>, <<",">>)
    \/ \E k \in Keys : OpGetParamAsInt(k, 9999)
    \/ \E k \in Keys : OpGetParamAsIntArray(k, <<"d">>, <<",">>)
    \/ \E k \in Keys : OpGetParamAsBool(k, TRUE)
    \/ \E k \in Keys, v \in Values : OpAddNew(k, v)
    \/ \E k \in Keys, v \in Values : OpUpdate(k, v)
    \/ \E k \in Keys : OpDelete(k)
    \/ \E k \in Keys : OpContains(k)
    \/ OpClear
    \/ OpLen
    \/ OpMap
    \/ OpDispose

Spec == Init /\ [][Next]_vars

\* Loading: every file of up to MaxLines lines, read by New or by Reload,
\* and then looked into.
InitLoad ==
    /\ \E f \in Files :
          fs = [p \in Paths |-> IF p = "cfg.ini" THEN File(f)
                                ELSE IF p = "alt.ini" THEN File(AltFile)
                                ELSE NoFile]
    /\ Unborn

NextLoad ==
    \/ \E p \in {"cfg.ini", "missing.ini"}, v \in Validators : OpNew(p, v)
    \/ OpReload
    \/ \E k \in FileKeys : OpGetParamAsString(k, <<"d">>)
    \/ OpLen

SpecLoad == InitLoad /\ [][NextLoad]_vars

\* Reading: a store whose entries are written by Update and deleted by
\* Delete, read by every getter with every default and separator.
NextGet ==
    \/ \E p \in {"cfg.ini", "missing.ini"} : OpNew(p, NilFunc)
    \/ \E v \in IntValues \cup Values : OpUpdate(<<"A">>, v)
    \/ OpDelete(<<"a">>)
    \/ \E k \in Keys, d \in Defaults : OpGetParamAsString(k, d)
    \/ \E k \in Keys, d \in Defaults, sep \in Seps : OpGetParamAsStringArray(k, d, sep)
    \/ \E k \in Keys, d \in IntDefaults : OpGetParamAsInt(k, d)
    \/ \E k \in Keys, d \in Defaults, sep \in Seps : OpGetParamAsIntArray(k, d, sep)
    \/ \E k \in Keys, d \in BOOLEAN : OpGetParamAsBool(k, d)

SpecGet == Init /\ [][NextGet]_vars

\* Loading again: a store that is loaded by New and by LoadFromPath, and
\* written by AddNew, Update and Delete, and never cleared.
NextAgain ==
    \/ \E p \in Paths, v \in Validators : OpNew(p, v)
    \/ \E p \in Paths : OpLoadFromPath(p)
    \/ \E k \in Keys, v \in Values : OpAddNew(k, v)
    \/ \E k \in Keys, v \in Values : OpUpdate(k, v)
    \/ \E k \in Keys : OpDelete(k)

SpecAgain == Init /\ [][NextAgain]_vars

-----------------------------------------------------------------------------
(* What the file says, read off its lines without the parser: the text     *)
(* before and after a line's first '=', and the default acceptance rule.   *)

ToUpperChar(c) ==
    IF \E i \in 1..Len(Lower) : Lower[i] = c
    THEN Upper[CHOOSE i \in 1..Len(Lower) : Lower[i] = c]
    ELSE c
ToUpper(s) == [i \in 1..Len(s) |-> ToUpperChar(s[i])]
CaseForms(k) == {k, ToLower(k), ToUpper(k)}

EqAt(line) == {i \in 1..Len(line) : line[i] = "="}
FirstEq(line) == CHOOSE i \in EqAt(line) : \A j \in EqAt(line) : i <= j
KeyText(line) == IF EqAt(line) = {} THEN line ELSE SubSeq(line, 1, FirstEq(line) - 1)
ValueText(line) ==
    IF EqAt(line) = {} THEN <<>> ELSE SubSeq(line, FirstEq(line) + 1, Len(line))

DefaultAccepts(line) == line # <<>> /\ line[1] # "#" /\ EqAt(line) # {}
Accepts(v, line) == IF v = NilFunc THEN DefaultAccepts(line) ELSE ApplyValidator(v, line)
SameKey(a, b) == ToLower(a) = ToLower(b)

\* the accepted lines whose key an earlier accepted line already has
DupLines(v, lines) ==
    {i \in 1..Len(lines) :
        /\ Accepts(v, lines[i])
        /\ \E j \in 1..(i - 1) : /\ Accepts(v, lines[j])
                                 /\ SameKey(KeyText(lines[i]), KeyText(lines[j]))}
FirstDup(v, lines) == CHOOSE i \in DupLines(v, lines) : \A j \in DupLines(v, lines) : i <= j

\* the entries of the accepted lines before line n, none of them a duplicate
EntriesBefore(v, lines, n) ==
    LET acc == {j \in 1..(n - 1) : Accepts(v, lines[j])}
    IN  [k \in {ToLower(KeyText(lines[j])) : j \in acc} |->
            ValueText(lines[CHOOSE j \in acc : ToLower(KeyText(lines[j])) = k])]

kv == GonfigurationValues.kv
\* the lines of the file the last load read
Loaded == fs[Path].lines

-----------------------------------------------------------------------------
(* C1: after Dispose, every later operation reports errorGonfigurationNil  *)
(* and the store stays disposed.                                           *)
C1_DisposedReportsNil ==
    (disposed /\ call.op # "Dispose") =>
        (ret.err = errorGonfigurationNil /\ IsNil(G))

(* C2, as claimed: whenever New returns an error, the store it returns is  *)
(* empty: Len() returns 0 and no error.                                    *)
C2_EmptyOnError ==
    (call.op = "New" /\ ret.err # NoErr) =>
        (Len_(G).val = 0 /\ Len_(G).err = NoErr)

(* C2, amended: New returns a store that is not nil, on which Len()        *)
(* returns no error; the store is empty when the error is                  *)
(* errorCantOpenFile, and when it is errorDuplicatedEntry it holds the     *)
(* entries of the accepted lines before the duplicate line, at least one.  *)
C2_UsableOnError ==
    call.op = "New" =>
        LET lines == fs[call.args[1]].lines
            v     == call.args[2]
        IN  /\ ~IsNil(G)
            /\ Len_(G).err = NoErr
            /\ ret.err \in {NoErr, errorCantOpenFile, errorDuplicatedEntry}
            /\ ret.err = errorCantOpenFile => Len_(G).val = 0
            /\ ret.err = errorDuplicatedEntry =>
                  /\ kv = EntriesBefore(v, lines, FirstDup(v, lines))
                  /\ Len_(G).val >= 1

C2_Witness ==
    /\ call.op = "New"
    /\ ret.err = errorDuplicatedEntry
    /\ Len_(G).val = 2

(* C3: a load into an empty store (New, Reload) of a file in which two     *)
(* accepted lines have keys equal ignoring case returns                    *)
(* errorDuplicatedEntry, and the map then holds exactly the entries of the *)
(* accepted lines before the first such line, with their own values.       *)
C3_DuplicateStopsLoad ==
    (/\ call.op \in {"New", "Reload"}
     /\ ~IsNil(G)
     /\ fs[Path].exists
     /\ DupLines(ValidateConfigLine, Loaded) # {}) =>
        /\ ret.err = errorDuplicatedEntry
        /\ kv = EntriesBefore(ValidateConfigLine, Loaded,
                              FirstDup(ValidateConfigLine, Loaded))

\* the second of three lines repeats the first one's key with another value,
\* and the third, an entry of its own, is not loaded
C3_Witness ==
    /\ call.op = "New"
    /\ ret.err = errorDuplicatedEntry
    /\ Len(Loaded) = 3
    /\ FirstDup(ValidateConfigLine, Loaded) = 2
    /\ ValueText(Loaded[2]) # ValueText(Loaded[1])
    /\ Accepts(ValidateConfigLine, Loaded[3])
    /\ ToLower(KeyText(Loaded[3])) \notin DOMAIN kv
    /\ kv[ToLower(KeyText(Loaded[1]))] = ValueText(Loaded[1])

C5_AddNew ==
    [][(call'.op = "AddNew" /\ ~IsNil(G)) =>
          LET K == call'.args[1]
              V == call'.args[2]
          IN  IF \E k \in DOMAIN kv : SameKey(k, K)
              THEN /\ ret'.err = errorDuplicatedEntry
                   /\ GonfigurationValues' = GonfigurationValues
              ELSE /\ ret'.err = NoErr
                   /\ DOMAIN kv' = DOMAIN kv \cup {ToLower(K)}
                   /\ kv'[ToLower(K)] = V
                   /\ \A k \in DOMAIN kv : kv'[k] = kv[k]]_vars

\* a second AddNew, with the key in upper case and another value, has failed
C5_Witness ==
    /\ call.op = "AddNew"
    /\ call.args[1] = <<"A">>
    /\ ret.err = errorDuplicatedEntry
    /\ <<"a">> \in DOMAIN kv
    /\ kv[<<"a">>] # call.args[2]
    /\ kv[<<"a">>] \in Values

(* C6: on an initialized store, Delete(K) with lowercase(K) present        *)
(* returns no error and removes that entry alone; with it absent Delete    *)
(* returns errorKeyNotFound and the map is unchanged.                      *)
C6_Delete ==
    [][(call'.op = "Delete" /\ ~IsNil(G)) =>
          LET K == call'.args[1]
          IN  IF ToLower(K) \in DOMAIN kv
              THEN /\ ret'.err = NoErr
                   /\ DOMAIN kv' = DOMAIN kv \ {ToLower(K)}
                   /\ \A k \in DOMAIN kv' : kv'[k] = kv[k]
              ELSE /\ ret'.err = errorKeyNotFound
                   /\ GonfigurationValues' = GonfigurationValues]_vars

\* Delete with the key in upper case has removed "a" and left another entry
C6_Witness ==
    /\ call.op = "Delete"
    /\ call.args[1] = <<"A">>
    /\ ret.err = NoErr
    /\ <<"a">> \notin DOMAIN kv
    /\ <<"b">> \in DOMAIN kv

(* C7: for a store New made from a file that loaded without error, not     *)
(* disposed and with the stored path still the one given to New: after     *)
(* Clear, Len() is 0; after Reload, whatever the map held before it,       *)
(* Reload has returned no error and Len() is what it was right after New.  *)
C7_ClearReload ==
    /\ (call.op = "Clear" /\ ~IsNil(G)) =>
          (ret.err = NoErr /\ Len_(G).val = 0 /\ Len_(G).err = NoErr)
    /\ (call.op = "Reload" /\ made.err = NoErr /\ ~disposed /\ Path = made.path) =>
          (ret.err = NoErr /\ Len_(G).val = made.len /\ Len_(G).err = NoErr)

C7_Witness ==
    /\ call.op = "Reload"
    /\ made.err = NoErr
    /\ ~disposed
    /\ Path = made.path
    /\ made.len = 2
    /\ Len_(G).val = 2

(* C8: every key of GonfigurationValues equals its own lowercased form.    *)
C8_KeysLowercase == \A k \in DOMAIN kv : k = ToLower(k)

\* Update was called with "A", and the file's "B" line is held under "b"
C8_Witness ==
    /\ call.op = "Update"
    /\ call.args[1] = <<"A">>
    /\ DOMAIN kv = {<<"a">>, <<"b">>}
    /\ kv[<<"b">>] = <<"x", "=", "y">>

-----------------------------------------------------------------------------
(* The getters.                                                            *)

Getters == {"GetParamAsString", "GetParamAsStringArray", "GetParamAsInt",
            "GetParamAsIntArray", "GetParamAsBool"}

\* what a getter called with arguments args returns for a missing key
DefaultOf(op, args) ==
    IF op \in {"GetParamAsString", "GetParamAsInt", "GetParamAsBool"}
    THEN args[2]
    ELSE LET parts == Split(args[2], args[3])
         IN  IF op = "GetParamAsStringArray"
             THEN Slice(parts)
             ELSE Slice([i \in 1..Len(parts) |-> Atoi(parts[i]).val])

(* C9: a getter call changes neither the map nor the stored path, and on   *)
(* an initialized store with no key equal to K ignoring case it returns    *)
(* the default (D itself; D split by sep; D split by sep and parsed        *)
(* element by element) together with errorKeyNotFound.                     *)
C9_GettersDefault ==
    [][call'.op \in Getters =>
          /\ GonfigurationValues' = GonfigurationValues
          /\ Path' = Path
          /\ (~IsNil(G) /\ ~\E k \in DOMAIN kv : SameKey(k, call'.args[1])) =>
                /\ ret'.err = errorKeyNotFound
                /\ ret'.val = DefaultOf(call'.op, call'.args)]_vars

\* the default "7,x" split by "," and parsed: 7 and 0
C9_Witness ==
    /\ call.op = "GetParamAsIntArray"
    /\ ret.err = errorKeyNotFound
    /\ ret.val = Slice(<<7, 0>>)
    /\ DOMAIN kv # {}

\* the text of an integer: an optional sign, then digits only, at least one
Negative(s) == s # <<>> /\ s[1] = "-"
Unsigned(s) == IF s # <<>> /\ s[1] \in {"+", "-"} THEN Tail(s) ELSE s
IntText(s) == Unsigned(s) # <<>> /\ \A i \in 1..Len(Unsigned(s)) : IsDigit(Unsigned(s)[i])
\* ... that denotes a number of the int range, MinInt to MaxInt
ValidInt(s) ==
    /\ IntText(s)
    /\ IF Negative(s) THEN ~DigitsGT(Unsigned(s), CutoffDigits)
                      ELSE DigitsGT(CutoffDigits, Unsigned(s))
Denoted(s) ==
    IF ~Negative(s) THEN NumVal(Unsigned(s))
    ELSE IF DigitsGT(CutoffDigits, Unsigned(s)) THEN -NumVal(Unsigned(s))
    ELSE MinInt

\* the string GetParamAsInt has just read
Stored == kv[ToLower(call.args[1])]
ReadInt ==
    /\ call.op = "GetParamAsInt"
    /\ ~IsNil(G)
    /\ ToLower(call.args[1]) \in DOMAIN kv

(* C10, as claimed: GetParamAsInt on a stored value returns no error, and  *)
(* the integer the string denotes when it is a valid integer, 0 for every  *)
(* other string, digits out of the int range included.                     *)
C10_ZeroUnlessValid ==
    ReadInt =>
        /\ ret.err = NoErr
        /\ ret.val = IF ValidInt(Stored) THEN Denoted(Stored) ELSE 0

(* C10, amended: GetParamAsInt on a stored value returns no error, and     *)
(* the integer the string denotes when it is a valid integer; the nearest  *)
(* limit of the int range (MaxInt, or MinInt after a '-') when             *)
(* strconv.Atoi reports the digits out of range; 0 when Atoi reports a     *)
(* syntax error. The default plays no part.                                *)
C10_AtoiValue ==
    ReadInt =>
        /\ ret.err = NoErr
        /\ ret.val = IF ValidInt(Stored) THEN Denoted(Stored)
                     ELSE IF Atoi(Stored).err = "range"
                          THEN (IF Negative(Stored) THEN MinInt ELSE MaxInt)
                     ELSE 0

C10_Witness ==
    /\ ReadInt
    /\ Stored = <<"2", "1", "4", "7", "4", "8", "3", "6", "4", "8">>
    /\ ret.val = MaxInt
    /\ ret.err = NoErr

-----------------------------------------------------------------------------
(* The stored path.                                                        *)

(* C11, as claimed: on a store that is not disposed, a load that opens its *)
(* file leaves Path at the path it read, and a LoadFromPath or Reload that *)
(* fails to open its path leaves Path as it was.                           *)
C11_FailedOpenKeepsPath ==
    [][(call'.op \in {"New", "LoadFromPath", "Reload"} /\ ~disposed') =>
          IF ret'.err = errorCantOpenFile
          THEN born => Path' = Path
          ELSE Path' = (IF call'.op = "Reload" THEN Path ELSE call'.args[1])]_vars

(* C11, amended: on a store that is not disposed, Path is the path given   *)
(* to the most recent New or LoadFromPath call, whether or not that path   *)
(* could be opened; Reload and every other operation leave it unchanged.   *)
C11_PathIsLastGiven ==
    [][~disposed' =>
          IF call'.op \in {"New", "LoadFromPath"}
          THEN Path' = call'.args[1]
          ELSE Path' = Path]_vars

\* LoadFromPath has failed to open "missing.ini" on a store that still
\* holds the entries of "cfg.ini", and Path is now "missing.ini"
C11_Witness ==
    /\ call.op = "LoadFromPath"
    /\ call.args[1] = "missing.ini"
    /\ ret.err = errorCantOpenFile
    /\ ~disposed
    /\ made.path = "cfg.ini"
    /\ made.len = 2
    /\ Len_(G).val = 2
    /\ Path = "missing.ini"

-----------------------------------------------------------------------------
\* the accepted lines of a file whose key the store holds already, or an
\* earlier accepted line of the file has
HitLines(v, lines) ==
    {i \in 1..Len(lines) :
        /\ Accepts(v, lines[i])
        /\ \/ ToLower(KeyText(lines[i])) \in DOMAIN kv
           \/ i \in DupLines(v, lines)}
FirstHit(v, lines) ==
    IF HitLines(v, lines) = {} THEN Len(lines) + 1
    ELSE CHOOSE i \in HitLines(v, lines) : \A j \in HitLines(v, lines) : i <= j
AcceptedLines(v, lines) == {i \in 1..Len(lines) : Accepts(v, lines[i])}
FirstAccepted(v, lines) ==
    CHOOSE i \in AcceptedLines(v, lines) : \A j \in AcceptedLines(v, lines) : i <= j
\* m, and the entries of n under the keys m does not have
Merged(m, n) == [k \in DOMAIN m \cup DOMAIN n |-> IF k \in DOMAIN m THEN m[k] ELSE n[k]]

(* C12 as stated: LoadFromPath called again on a file that was loaded      *)
(* before (by New, or by the last LoadFromPath) and has at least one       *)
(* accepted line, with no Clear, Reload or Dispose since, returns          *)
(* errorDuplicatedEntry and leaves the map exactly as it was.              *)
C12_SecondLoadFails ==
    [][(/\ call'.op = "LoadFromPath"
        /\ call'.args[1] \in {made.path, Path}
        /\ fs[call'.args[1]].exists
        /\ AcceptedLines(ValidateConfigLine, fs[call'.args[1]].lines) # {})
          => /\ ret'.err = errorDuplicatedEntry
             /\ GonfigurationValues' = GonfigurationValues]_vars

(* C12, amended: LoadFromPath on an initialized store does not clear the   *)
(* map.  It adds the entries of the file's accepted lines, in order, to    *)
(* those already held, whose values it keeps, and stops with               *)
(* errorDuplicatedEntry at the first accepted line whose lowercased key is *)
(* in the store already (from before the call or from an earlier line of   *)
(* the file); with no such line it returns nil.  So when the key of the    *)
(* file's first accepted line is still held, the call returns              *)
(* errorDuplicatedEntry and leaves the map exactly as it was; a file that  *)
(* cannot be opened leaves it as it was too.                               *)
C12_LoadAdds ==
    [][(call'.op = "LoadFromPath" /\ ~IsNil(G)) =>
          LET lines == fs[call'.args[1]].lines
              v     == ValidateConfigLine
              n     == FirstHit(v, lines)
          IN  IF ~fs[call'.args[1]].exists
              THEN /\ ret'.err = errorCantOpenFile
                   /\ GonfigurationValues' = GonfigurationValues
              ELSE /\ ret'.err = (IF HitLines(v, lines) = {} THEN NoErr
                                  ELSE errorDuplicatedEntry)
                   /\ ~GonfigurationValues'.nil
                   /\ GonfigurationValues'.kv = Merged(kv, EntriesBefore(v, lines, n))
                   /\ (/\ AcceptedLines(v, lines) # {}
                       /\ ToLower(KeyText(lines[FirstAccepted(v, lines)])) \in DOMAIN kv)
                         => /\ ret'.err = errorDuplicatedEntry
                            /\ GonfigurationValues' = GonfigurationValues]_vars

\* a store made from alt.ini (B=true) has loaded cfg.ini (a=1, a blank line,
\* B=x=y): a is added, b keeps its value, and the load stopped at B
C12_Witness ==
    /\ call.op = "LoadFromPath"
    /\ call.args[1] = "cfg.ini"
    /\ made.path = "alt.ini"
    /\ made.err = NoErr
    /\ ValidateConfigLine = NilFunc
    /\ ret.err = errorDuplicatedEntry
    /\ DOMAIN kv = {<<"a">>, <<"b">>}
    /\ kv[<<"a">>] = <<"1">>
    /\ kv[<<"b">>] = <<"t", "r", "u", "e">>

====
